---- MODULE Spec2Model ----
(***************************************************************************)
(* A model of ansi_term_buf: the escape-sequence parser (src/parser.rs)    *)
(* and the grid buffer it drives (src/lib.rs).                             *)
(*                                                                         *)
(* Bytes are numbers 0..255 and characters are Unicode scalar values.      *)
(* The program state is the two fields of Term (term_state, ansi_parser);  *)
(* panicked records that a feed call unwound with a panic, after which the *)
(* instance is not used any more.  overflow_checks is the build profile    *)
(* (debug builds panic on integer overflow, release builds wrap).          *)
(* emitted, fed, ncalls and ret observe the run: the commands handed to    *)
(* the callback and the bytes fed since construction or the last reset,    *)
(* the number of feed calls, and the value the last call returned.         *)
(***************************************************************************)
EXTENDS Integers, Sequences, FiniteSets, TLC

VARIABLES term_state, ansi_parser, panicked, overflow_checks,
          emitted, fed, ncalls, ret

vars == <<term_state, ansi_parser, panicked, overflow_checks,
          emitted, fed, ncalls, ret>>

(***************************************************************************)
(* Bounds of the model.                                                    *)
(***************************************************************************)
MaxWidth == 3
MaxCalls == 3
MaxParam == 1
MaxFeedLen == 2
MaxRightCalls == 258

(***************************************************************************)
(* Characters and ranges the source names.                                 *)
(***************************************************************************)
ESC == 27
CR == 13
LF == 10
SPACE == 32
EQUALS == 61
LBRACKET == 91
SEMICOLON == 59
PARAM_LO == 48
PARAM_HI == 63
TERM_LO == 64
TERM_HI == 126
DIGIT_NINE == 57
U8_MAX == 255
U16_MOD == 65536
DEFAULT_N == 1
DEFAULT_CLEAR_MODE == 2
Ch_m == 109
Ch_K == 75
Ch_A == 65
Ch_B == 66
Ch_C == 67
Ch_D == 68
Ch_E == 69
Ch_F == 70
Ch_H == 72
Ch_J == 74
Ch_h == 104
Ch_l == 108
SYNC_UPDATE_MODE == <<63, 50, 48, 50, 54>>

None == [some |-> FALSE]
Some(v) == [some |-> TRUE, v |-> v]

(***************************************************************************)
(* UTF-8: <[u8]>::utf8_chunks() cuts the bytes into maximal valid pieces   *)
(* and the invalid sequences between them; advance reads only the valid    *)
(* pieces and decodes their characters.                                    *)
(***************************************************************************)
IsCont(b) == b >= 128 /\ b <= 191

\* Length of the sequence a lead byte announces, 0 for a byte that cannot lead.
utf8_width(b) ==
    IF b < 128 THEN 1
    ELSE IF b >= 194 /\ b <= 223 THEN 2
    ELSE IF b >= 224 /\ b <= 239 THEN 3
    ELSE IF b >= 240 /\ b <= 244 THEN 4
    ELSE 0

\* The range the second byte must lie in (E0, ED, F0 and F4 narrow it).
second_ok(b0, b1) ==
    IF b0 = 224 THEN b1 >= 160 /\ b1 <= 191
    ELSE IF b0 = 237 THEN b1 >= 128 /\ b1 <= 159
    ELSE IF b0 = 240 THEN b1 >= 144 /\ b1 <= 191
    ELSE IF b0 = 244 THEN b1 >= 128 /\ b1 <= 143
    ELSE IsCont(b1)

\* Number of bytes of the sequence starting at i that are well formed so far.
RECURSIVE good_prefix(_, _, _, _)
good_prefix(bytes, i, n, k) ==
    IF k >= n \/ i + k > Len(bytes) THEN k
    ELSE IF (k = 1 /\ second_ok(bytes[i], bytes[i + 1]))
            \/ (k > 1 /\ IsCont(bytes[i + k]))
         THEN good_prefix(bytes, i, n, k + 1)
         ELSE k

decode_at(bytes, i, n) ==
    IF n = 1 THEN bytes[i]
    ELSE IF n = 2 THEN (bytes[i] - 192) * 64 + (bytes[i + 1] - 128)
    ELSE IF n = 3 THEN (bytes[i] - 224) * 4096 + (bytes[i + 1] - 128) * 64
                       + (bytes[i + 2] - 128)
    ELSE (bytes[i] - 240) * 262144 + (bytes[i + 1] - 128) * 4096
         + (bytes[i + 2] - 128) * 64 + (bytes[i + 3] - 128)

\* The characters of the valid chunks, in order; invalid sequences are skipped.
RECURSIVE valid_chars(_, _)
valid_chars(bytes, i) ==
    IF i > Len(bytes) THEN << >>
    ELSE LET n == utf8_width(bytes[i])
             k == IF n = 0 THEN 1 ELSE good_prefix(bytes, i, n, 1)
         IN IF n > 0 /\ k = n
            THEN <<decode_at(bytes, i, n)>> \o valid_chars(bytes, i + n)
            ELSE valid_chars(bytes, i + k)

(***************************************************************************)
(* Parameter parsing (ParamBytesExt).                                      *)
(***************************************************************************)
\* str::split(';'): the fields between separators; always at least one field.
RECURSIVE split(_, _, _)
split(bytes, i, cur) ==
    IF i > Len(bytes) THEN <<cur>>
    ELSE IF bytes[i] = SEMICOLON THEN <<cur>> \o split(bytes, i + 1, << >>)
    ELSE split(bytes, i + 1, Append(cur, bytes[i]))

\* <u8 as FromStr>: decimal digits only, not empty, value at most 255.
RECURSIVE parse_digits(_, _, _)
parse_digits(field, i, acc) ==
    IF i > Len(field) THEN Some(acc)
    ELSE IF field[i] < PARAM_LO \/ field[i] > DIGIT_NINE THEN None
    ELSE LET v == acc * 10 + (field[i] - PARAM_LO)
         IN IF v > U8_MAX THEN None ELSE parse_digits(field, i + 1, v)

parse_u8(field) == IF Len(field) = 0 THEN None ELSE parse_digits(field, 1, 0)

parse_first(param_bytes) == parse_u8(split(param_bytes, 1, << >>)[1])

\* parse::<2>: zip(args, &mut arr) stops at the shorter; unfilled slots stay 0.
parse2(param_bytes) ==
    LET args == split(param_bytes, 1, << >>)
        a1 == parse_u8(args[1])
        a2 == IF Len(args) >= 2 THEN parse_u8(args[2]) ELSE Some(0)
    IN IF a1.some /\ a2.some THEN Some(<<a1.v, a2.v>>) ELSE None

unwrap_or(opt, d) == IF opt.some THEN opt.v ELSE d

(***************************************************************************)
(* Terminal commands (TermCmd).                                            *)
(***************************************************************************)
PutChar(c) == [cmd |-> "PutChar", c |-> c]
CarriageReturn == [cmd |-> "CarriageReturn"]
LineFeed == [cmd |-> "LineFeed"]
CursorUp(n) == [cmd |-> "CursorUp", n |-> n]
CursorDown(n) == [cmd |-> "CursorDown", n |-> n]
CursorLeft(n) == [cmd |-> "CursorLeft", n |-> n]
CursorRight(n) == [cmd |-> "CursorRight", n |-> n]
CursorCrDown(n) == [cmd |-> "CursorCrDown", n |-> n]
CursorCrUp(n) == [cmd |-> "CursorCrUp", n |-> n]
CursorSet(x, y) == [cmd |-> "CursorSet", x |-> x, y |-> y]
EraseFromCursorToEol == [cmd |-> "EraseFromCursorToEol"]
Clear(mode) == [cmd |-> "Clear", mode |-> mode]
BeginSyncUpdate == [cmd |-> "BeginSyncUpdate"]
EndSyncUpdate == [cmd |-> "EndSyncUpdate"]

(***************************************************************************)
(* The parser: one character of AnsiParser::advance.  The result is the    *)
(* parser after the character and the commands handed to the callback.     *)
(***************************************************************************)
AnsiParser_default == [status |-> "Init", param_bytes |-> << >>]

\* Mutant of terminator_cmds: 'm' falls into the arm of 'K'.
terminator_cmds_m_erases(param_bytes, ch) ==
    IF ch = Ch_m THEN <<EraseFromCursorToEol>>
    ELSE IF ch = Ch_K THEN <<EraseFromCursorToEol>>
    ELSE IF ch = Ch_A THEN <<CursorUp(unwrap_or(parse_first(param_bytes), DEFAULT_N))>>
    ELSE IF ch = Ch_B THEN <<CursorDown(unwrap_or(parse_first(param_bytes), DEFAULT_N))>>
    ELSE IF ch = Ch_C THEN <<CursorRight(unwrap_or(parse_first(param_bytes), DEFAULT_N))>>
    ELSE IF ch = Ch_D THEN <<CursorLeft(unwrap_or(parse_first(param_bytes), DEFAULT_N))>>
    ELSE IF ch = Ch_E THEN <<CursorCrDown(unwrap_or(parse_first(param_bytes), DEFAULT_N))>>
    ELSE IF ch = Ch_F THEN <<CursorCrUp(unwrap_or(parse_first(param_bytes), DEFAULT_N))>>
    ELSE IF ch = Ch_H
         THEN LET xy == unwrap_or(parse2(param_bytes), <<DEFAULT_N, DEFAULT_N>>)
              IN <<CursorSet(xy[1], xy[2])>>
    ELSE IF ch = Ch_J
         THEN <<Clear(unwrap_or(parse_first(param_bytes), DEFAULT_CLEAR_MODE))>>
    ELSE IF ch = Ch_h
         THEN IF param_bytes = SYNC_UPDATE_MODE THEN <<BeginSyncUpdate>> ELSE << >>
    ELSE IF ch = Ch_l
         THEN IF param_bytes = SYNC_UPDATE_MODE THEN <<EndSyncUpdate>> ELSE << >>
    ELSE << >>

\* The terminator match: the command a terminator byte selects, if any.
terminator_cmds(param_bytes, ch) ==
    IF ch = Ch_m THEN << >>
    ELSE IF ch = Ch_K THEN <<EraseFromCursorToEol>>
    ELSE IF ch = Ch_A THEN <<CursorUp(unwrap_or(parse_first(param_bytes), DEFAULT_N))>>
    ELSE IF ch = Ch_B THEN <<CursorDown(unwrap_or(parse_first(param_bytes), DEFAULT_N))>>
    ELSE IF ch = Ch_C THEN <<CursorRight(unwrap_or(parse_first(param_bytes), DEFAULT_N))>>
    ELSE IF ch = Ch_D THEN <<CursorLeft(unwrap_or(parse_first(param_bytes), DEFAULT_N))>>
    ELSE IF ch = Ch_E THEN <<CursorCrDown(unwrap_or(parse_first(param_bytes), DEFAULT_N))>>
    ELSE IF ch = Ch_F THEN <<CursorCrUp(unwrap_or(parse_first(param_bytes), DEFAULT_N))>>
    ELSE IF ch = Ch_H
         THEN LET xy == unwrap_or(parse2(param_bytes), <<DEFAULT_N, DEFAULT_N>>)
              IN <<CursorSet(xy[1], xy[2])>>
    ELSE IF ch = Ch_J
         THEN <<Clear(unwrap_or(parse_first(param_bytes), DEFAULT_CLEAR_MODE))>>
    ELSE IF ch = Ch_h
         THEN IF param_bytes = SYNC_UPDATE_MODE THEN <<BeginSyncUpdate>> ELSE << >>
    ELSE IF ch = Ch_l
         THEN IF param_bytes = SYNC_UPDATE_MODE THEN <<EndSyncUpdate>> ELSE << >>
    ELSE << >>

\* Status::Init
step_Init(ap, ch) ==
    IF ch = ESC THEN [ap |-> [ap EXCEPT !.status = "Esc"], cmds |-> << >>]
    ELSE IF ch = CR THEN [ap |-> ap, cmds |-> <<CarriageReturn>>]
    ELSE IF ch = LF THEN [ap |-> ap, cmds |-> <<LineFeed>>]
    ELSE [ap |-> ap, cmds |-> <<PutChar(ch)>>]

\* Mutant of step_Esc: an unexpected character ends the escape sequence.
step_Esc_abandons(ap, ch) ==
    IF ch = LBRACKET
    THEN [ap |-> [ap EXCEPT !.status = "ControlSeqStart"], cmds |-> << >>]
    ELSE [ap |-> [ap EXCEPT !.status = "Init"], cmds |-> << >>]

\* Status::Esc: any character but '=' and '[' is logged, the status stays.
step_Esc(ap, ch) ==
    IF ch = EQUALS THEN [ap |-> [ap EXCEPT !.status = "Init"], cmds |-> << >>]
    ELSE IF ch = LBRACKET
         THEN [ap |-> [ap EXCEPT !.status = "ControlSeqStart"], cmds |-> << >>]
    ELSE [ap |-> ap, cmds |-> << >>]

\* Mutant of step_ControlSeqStart: a terminator leaves the parameters in place.
step_ControlSeqStart_keeps_params(ap, ch) ==
    IF ch >= PARAM_LO /\ ch <= PARAM_HI
    THEN [ap |-> [ap EXCEPT !.param_bytes = Append(@, ch)], cmds |-> << >>]
    ELSE IF ch >= TERM_LO /\ ch <= TERM_HI
         THEN [ap |-> [ap EXCEPT !.status = "Init"],
               cmds |-> terminator_cmds(ap.param_bytes, ch)]
    ELSE [ap |-> ap, cmds |-> << >>]

\* Status::ControlSeqStart
step_ControlSeqStart(ap, ch) ==
    IF ch >= PARAM_LO /\ ch <= PARAM_HI
    THEN [ap |-> [ap EXCEPT !.param_bytes = Append(@, ch)], cmds |-> << >>]
    ELSE IF ch >= TERM_LO /\ ch <= TERM_HI
         THEN [ap |-> [status |-> "Init", param_bytes |-> << >>],
               cmds |-> terminator_cmds(ap.param_bytes, ch)]
    ELSE [ap |-> ap, cmds |-> << >>]

parser_step(ap, ch) ==
    IF ap.status = "Init" THEN step_Init(ap, ch)
    ELSE IF ap.status = "Esc" THEN step_Esc(ap, ch)
    ELSE step_ControlSeqStart(ap, ch)

(***************************************************************************)
(* The grid (TermState).  cells is the Vec<char>, 1-based here: the cell   *)
(* of Rust index i is cells[i + 1].  An operation that can panic returns   *)
(* the state it left behind and whether it panicked.                       *)
(***************************************************************************)
Cursor_default == [x |-> 0, y |-> 0]

TermState_new(width) ==
    [width |-> width, height |-> 0, cells |-> << >>, cursor |-> Cursor_default]

Ok(ts) == [ts |-> ts, panic |-> FALSE]
Panic(ts) == [ts |-> ts, panic |-> TRUE]

\* Cursor::index
index(cursor, width) == cursor.y * width + cursor.x

\* u16 `+=`: a debug build panics on overflow, a release build wraps.
add_u16(ts, n, oc) ==
    LET s == ts.cursor.x + n
    IN IF s < U16_MOD THEN Ok([ts EXCEPT !.cursor.x = s])
       ELSE IF oc THEN Panic(ts)
       ELSE Ok([ts EXCEPT !.cursor.x = s % U16_MOD])

saturating_sub(a, n) == IF a >= n THEN a - n ELSE 0

extend(ts) ==
    [ts EXCEPT !.cells = @ \o [i \in 1..ts.width |-> SPACE], !.height = @ + 1]

\* Mutant of extend_while_cursor_past: one row more than the cursor needs.
RECURSIVE extend_while_cursor_near(_)
extend_while_cursor_near(ts) ==
    IF ts.cursor.y + 1 >= ts.height THEN extend_while_cursor_near(extend(ts)) ELSE ts

RECURSIVE extend_while_cursor_past(_)
extend_while_cursor_past(ts) ==
    IF ts.cursor.y >= ts.height THEN extend_while_cursor_past(extend(ts)) ELSE ts

\* Mutant of put_char: the wrap test is `>` where the code has `>=`.
put_char_wrap_late(ts, ch, oc) ==
    LET e == extend_while_cursor_past(ts)
        idx == index(e.cursor, e.width)
    IN IF idx >= Len(e.cells) THEN Panic(e)
       ELSE LET w == [e EXCEPT !.cells[idx + 1] = ch]
                a == add_u16(w, 1, oc)
            IN IF a.panic THEN a
               ELSE IF a.ts.cursor.x > a.ts.width
                    THEN Ok([a.ts EXCEPT !.cursor.x = 0, !.cursor.y = @ + 1])
                    ELSE a

\* The write indexes the Vec: an index at or past its length panics.
put_char(ts, ch, oc) ==
    LET e == extend_while_cursor_past(ts)
        idx == index(e.cursor, e.width)
    IN IF idx >= Len(e.cells) THEN Panic(e)
       ELSE LET w == [e EXCEPT !.cells[idx + 1] = ch]
                a == add_u16(w, 1, oc)
            IN IF a.panic THEN a
               ELSE IF a.ts.cursor.x >= a.ts.width
                    THEN Ok([a.ts EXCEPT !.cursor.x = 0, !.cursor.y = @ + 1])
                    ELSE a

RECURSIVE erase_loop(_, _)
erase_loop(ts, x) ==
    IF x >= ts.width THEN ts
    ELSE LET idx == ts.cursor.y * ts.width + x
         IN IF idx >= Len(ts.cells) THEN ts
            ELSE erase_loop([ts EXCEPT !.cells[idx + 1] = SPACE], x + 1)

\* Mutant of erase_from_cursor_to_eol: the whole row of the cursor is erased.
erase_whole_line(ts) == erase_loop(ts, 0)

erase_from_cursor_to_eol(ts) == erase_loop(ts, ts.cursor.x)

\* Mutant of clear: only mode 2 clears.
clear_mode_two_only(ts, mode) ==
    IF mode = DEFAULT_CLEAR_MODE
    THEN [ts EXCEPT !.cells = [i \in 1..Len(@) |-> SPACE]]
    ELSE ts

clear(ts, mode) == [ts EXCEPT !.cells = [i \in 1..Len(@) |-> SPACE]]

\* The callback of Term::feed: one command applied to the grid.  (usize
\* additions to cursor.y cannot overflow within any feasible input.)
apply_cmd(ts, c, oc) ==
    IF c.cmd = "PutChar" THEN put_char(ts, c.c, oc)
    ELSE IF c.cmd = "CarriageReturn" THEN Ok([ts EXCEPT !.cursor.x = 0])
    ELSE IF c.cmd = "LineFeed" THEN Ok([ts EXCEPT !.cursor.y = @ + 1])
    ELSE IF c.cmd = "CursorUp"
         THEN Ok([ts EXCEPT !.cursor.y = saturating_sub(@, c.n)])
    ELSE IF c.cmd = "CursorDown" THEN Ok([ts EXCEPT !.cursor.y = @ + c.n])
    ELSE IF c.cmd = "CursorLeft"
         THEN Ok([ts EXCEPT !.cursor.x = saturating_sub(@, c.n)])
    ELSE IF c.cmd = "CursorRight" THEN add_u16(ts, c.n, oc)
    ELSE IF c.cmd = "CursorCrUp"
         THEN Ok([ts EXCEPT !.cursor.y = saturating_sub(@, c.n), !.cursor.x = 0])
    ELSE IF c.cmd = "CursorCrDown"
         THEN Ok([ts EXCEPT !.cursor.y = @ + c.n, !.cursor.x = 0])
    ELSE IF c.cmd = "CursorSet"
         THEN Ok([ts EXCEPT !.cursor.x = c.x, !.cursor.y = c.y])
    ELSE IF c.cmd = "EraseFromCursorToEol" THEN Ok(erase_from_cursor_to_eol(ts))
    ELSE IF c.cmd = "Clear" THEN Ok(clear(ts, c.mode))
    ELSE Ok(ts)

\* TermState::line_slice: slicing past the end of the Vec panics (None).
line_slice(ts, y) ==
    LET from == y * ts.width
        to == from + ts.width
    IN IF to > Len(ts.cells) THEN None ELSE Some(SubSeq(ts.cells, from + 1, to))

\* TermState::contents_to_string: every row, each followed by a newline.
RECURSIVE contents_loop(_, _, _)
contents_loop(ts, y, buf) ==
    IF y >= ts.height THEN Some(buf)
    ELSE LET row == line_slice(ts, y)
         IN IF row.some THEN contents_loop(ts, y + 1, Append(buf \o row.v, LF))
            ELSE None

\* Mutant of contents_to_string: rows joined by newlines, none after the last.
contents_to_string_joined(ts) ==
    LET s == contents_loop(ts, 0, << >>)
    IN IF s.some /\ Len(s.v) > 0 THEN Some(SubSeq(s.v, 1, Len(s.v) - 1)) ELSE s

contents_to_string(ts) == contents_loop(ts, 0, << >>)

\* Mutant of is_empty: a grid whose cells are all blank counts as empty.
is_empty_all_blank(ts) == \A i \in 1..Len(ts.cells) : ts.cells[i] = SPACE

is_empty(ts) == Len(ts.cells) = 0

(***************************************************************************)
(* Term: the parser driving the grid.  t is a whole instance with what it  *)
(* has emitted: [term_state, ansi_parser, panicked, emitted].              *)
(***************************************************************************)
Term_new(width) ==
    [term_state |-> TermState_new(width),
     ansi_parser |-> AnsiParser_default,
     panicked |-> FALSE,
     emitted |-> << >>]

\* One character: the parser step, then its command (at most one) applied.
advance_char(t, ch, oc) ==
    LET r == parser_step(t.ansi_parser, ch)
    IN IF r.cmds = << >> THEN [t EXCEPT !.ansi_parser = r.ap]
       ELSE LET a == apply_cmd(t.term_state, r.cmds[1], oc)
            IN [term_state |-> a.ts,
                ansi_parser |-> IF a.panic THEN t.ansi_parser ELSE r.ap,
                panicked |-> a.panic,
                emitted |-> t.emitted \o r.cmds]

\* The loop of advance over the characters; a panic unwinds out of it.
RECURSIVE advance(_, _, _, _)
advance(t, chars, i, oc) ==
    IF t.panicked \/ i > Len(chars) THEN t
    ELSE advance(advance_char(t, chars[i], oc), chars, i + 1, oc)

\* Mutant of feed: every call starts with a fresh parser.
feed_fresh_parser(t, data, oc) ==
    advance([t EXCEPT !.ansi_parser = AnsiParser_default], valid_chars(data, 1), 1, oc)

\* Term::feed
feed(t, data, oc) == advance(t, valid_chars(data, 1), 1, oc)

\* Mutant of reset: the cells are cleared and the height is left as it was.
reset_keeps_height(t) ==
    [t EXCEPT !.term_state = [@ EXCEPT !.cursor = Cursor_default, !.cells = << >>],
              !.ansi_parser = AnsiParser_default,
              !.emitted = << >>]

\* Mutant of reset: the grid is reset and the parser is left as it was.
reset_keeps_parser(t) ==
    [t EXCEPT !.term_state = [@ EXCEPT !.cursor = Cursor_default,
                                       !.cells = << >>,
                                       !.height = 0],
              !.emitted = << >>]

\* Term::reset
reset(t) ==
    [t EXCEPT !.term_state = [@ EXCEPT !.cursor = Cursor_default,
                                       !.cells = << >>,
                                       !.height = 0],
              !.ansi_parser = AnsiParser_default,
              !.emitted = << >>]

(***************************************************************************)
(* The state machine: an instance built by Term::new(width) and the calls  *)
(* made on it.                                                             *)
(***************************************************************************)
Cur ==
    [term_state |-> term_state, ansi_parser |-> ansi_parser,
     panicked |-> panicked, emitted |-> emitted]

Init ==
    /\ \E width \in 1..MaxWidth : term_state = TermState_new(width)
    /\ ansi_parser = AnsiParser_default
    /\ panicked = FALSE
    /\ overflow_checks \in BOOLEAN
    /\ emitted = << >>
    /\ fed = << >>
    /\ ncalls = 0
    /\ ret = [op |-> "new"]

\* feed(data)
FeedCall(data) ==
    /\ ~panicked
    /\ LET t == feed(Cur, data, overflow_checks)
       IN /\ term_state' = t.term_state
          /\ ansi_parser' = t.ansi_parser
          /\ panicked' = t.panicked
          /\ emitted' = t.emitted
    /\ fed' = fed \o data
    /\ ncalls' = ncalls + 1
    /\ ret' = [op |-> "feed"]
    /\ UNCHANGED overflow_checks

\* feed(data), while the run has calls left
Feed(data) == ncalls < MaxCalls /\ FeedCall(data)

\* reset()
Reset ==
    /\ ~panicked
    /\ LET t == reset(Cur)
       IN /\ term_state' = t.term_state
          /\ ansi_parser' = t.ansi_parser
          /\ panicked' = t.panicked
          /\ emitted' = t.emitted
    /\ fed' = << >>
    /\ ret' = [op |-> "reset"]
    /\ UNCHANGED <<overflow_checks, ncalls>>

\* contents_to_string(): takes &self
ContentsToString ==
    /\ ~panicked
    /\ LET s == contents_to_string(term_state)
       IN IF s.some
          THEN ret' = [op |-> "contents_to_string", v |-> s.v] /\ UNCHANGED panicked
          ELSE ret' = [op |-> "contents_to_string"] /\ panicked' = TRUE
    /\ UNCHANGED <<term_state, ansi_parser, overflow_checks, emitted, fed, ncalls>>

\* is_empty(): takes &self
IsEmpty ==
    /\ ~panicked
    /\ ret' = [op |-> "is_empty", v |-> is_empty(term_state)]
    /\ UNCHANGED <<term_state, ansi_parser, panicked, overflow_checks,
                   emitted, fed, ncalls>>

(***************************************************************************)
(* Inputs of feed, and one specification per family of inputs.             *)
(***************************************************************************)
PlainChars == {97, 98}
Digit(n) == PARAM_LO + n
CSI == <<ESC, LBRACKET>>

\* Text, line ends, a lone ESC, a control sequence cut after its parameter,
\* its terminator alone, erase-to-end-of-line and clear-screen.
Inputs ==
    {<<97>>, <<CR, LF>>, <<LF>>, <<ESC>>, CSI \o <<Digit(2)>>, <<Ch_C>>,
     CSI \o <<Ch_K>>, CSI \o <<Ch_J>>}

Next ==
    \/ \E data \in Inputs : Feed(data)
    \/ Reset
    \/ ContentsToString
    \/ IsEmpty

Spec == Init /\ [][Next]_vars

\* Plain printable text only, in calls of 1..MaxFeedLen characters.
TextInputs ==
    UNION {[1..n -> PlainChars] : n \in 1..MaxFeedLen}

NextText ==
    \/ \E data \in TextInputs : Feed(data)
    \/ Reset

SpecText == Init /\ [][NextText]_vars

\* Escape sequences, and every piece a cut in two leaves of one of them.
EscSeqs ==
    {CSI \o p \o <<t>> : p \in {<< >>, <<Digit(2)>>},
                         t \in {Ch_B, Ch_H, Ch_J, Ch_m}}
    \cup {<<ESC, EQUALS>>}

SplitSeq == CSI \o <<Digit(2), Ch_B>>

SplitInputs ==
    {SubSeq(SplitSeq, 1, i) : i \in 1..Len(SplitSeq)}
    \cup {SubSeq(SplitSeq, i, Len(SplitSeq)) : i \in 2..Len(SplitSeq)}
    \cup {<<97>>}

NextSplit ==
    \/ \E data \in SplitInputs : Feed(data)
    \/ Reset

SpecSplit == Init /\ [][NextSplit]_vars

\* Multi-byte characters with their UTF-8 encodings, a byte no encoding
\* contains, and the calls that carry them whole or in pieces.
MultiByte ==
    {[ch |-> 233, bytes |-> <<195, 169>>],
     [ch |-> 8364, bytes |-> <<226, 130, 172>>]}

InvalidByte == <<255>>

Utf8Inputs ==
    {m.bytes : m \in MultiByte}
    \cup {<<195>>, <<169>>, <<226>>, <<130, 172>>}
    \cup {InvalidByte, InvalidByte \o <<97>>, <<97>>}

NextUtf8 ==
    \/ \E data \in Utf8Inputs : Feed(data)
    \/ Reset

SpecUtf8 == Init /\ [][NextUtf8]_vars

\* ESC [ x ; y H followed by the character c, in one call.
SetPut(x, y, c) == CSI \o <<Digit(x), SEMICOLON, Digit(y), Ch_H, c>>

SetInputs ==
    {SetPut(x, y, 98) : x \in 0..MaxParam, y \in 0..MaxParam}
    \cup {<<97>>, <<CR, LF>>}

NextSet ==
    \/ \E data \in SetInputs : Feed(data)
    \/ Reset

SpecSet == Init /\ [][NextSet]_vars

\* Cursor movement: ESC [ n t, and the calls that move the cursor or put text.
Move(n, t) == CSI \o <<Digit(n), t>>

MoveInputs ==
    {<<97>>, <<CR>>, <<LF>>}
    \cup {Move(2, t) : t \in {Ch_A, Ch_B, Ch_C, Ch_D, Ch_F}}
    \cup {CSI \o <<Ch_E>>, CSI \o <<Digit(1), SEMICOLON, Digit(1), Ch_H>>}

NextMove ==
    \/ \E data \in MoveInputs : Feed(data)
    \/ Reset

SpecMove == Init /\ [][NextMove]_vars

\* Clear-screen: ESC [ p J with no mode, the supported mode and two others,
\* after text of one or two characters and line breaks.
ClearSeq(p) == CSI \o p \o <<Ch_J>>

ClearSeqs == {ClearSeq(p) : p \in {<< >>, <<Digit(0)>>, <<Digit(1)>>, <<Digit(2)>>}}

ClearInputs == {<<97>>, <<97, 98>>, <<CR, LF>>} \cup ClearSeqs

NextClear ==
    \/ \E data \in ClearInputs : Feed(data)
    \/ Reset
    \/ ContentsToString

SpecClear == Init /\ [][NextClear]_vars

\* Erase to end of line: ESC [ K with the cursor inside a row of text, past
\* the last column and on a row not yet allocated.
EraseSeq == CSI \o <<Ch_K>>

EraseInputs ==
    {<<97>>, <<97, 98>>, <<LF>>, Move(1, Ch_D), Move(2, Ch_C), Move(2, Ch_A),
     EraseSeq}

NextErase ==
    \/ \E data \in EraseInputs : Feed(data)
    \/ Reset

SpecErase == Init /\ [][NextErase]_vars

\* Parameters: whole control sequences ESC [ p t whose parameter text p is
\* absent, one field, two fields, a field left empty, not a number ("?") or
\* above 255, for a two-field command (H) and two one-field commands (B, J).
ParamTexts ==
    {<< >>, <<Digit(1)>>, <<Digit(1), SEMICOLON>>,
     <<Digit(1), SEMICOLON, Digit(0)>>, <<SEMICOLON, Digit(0)>>, <<PARAM_HI>>,
     <<Digit(2), Digit(5), Digit(6)>>}

ParamTerms == {Ch_H, Ch_B, Ch_J}

ParamSeq(p, t) == CSI \o p \o <<t>>

ParamInputs == {ParamSeq(p, t) : p \in ParamTexts, t \in ParamTerms} \cup {<<97>>}

NextParam ==
    \/ \E data \in ParamInputs : Feed(data)
    \/ Reset

SpecParam == Init /\ [][NextParam]_vars

\* Control sequences fed a piece at a time: the introducer, parameter bytes,
\* and terminators that are recognized (H, m) and not ('~', 'a').
PieceInputs ==
    {CSI, <<Digit(5)>>, <<SEMICOLON>>, <<Ch_H>>, <<Ch_m>>, <<TERM_HI>>, <<97>>,
     <<ESC>>}

NextPiece ==
    \/ \E data \in PieceInputs : Feed(data)
    \/ Reset

SpecPiece == Init /\ [][NextPiece]_vars

\* Sequences that map to no grid operation, each fed whole, between text,
\* carriage returns and line feeds.
NoEffectSeqs ==
    {<<ESC, EQUALS>>, CSI \o <<Digit(2), Ch_m>>, CSI \o <<TERM_HI>>,
     CSI \o SYNC_UPDATE_MODE \o <<Ch_h>>, CSI \o SYNC_UPDATE_MODE \o <<Ch_l>>}

NoEffectInputs == {<<97>>, <<CR>>, <<LF>>} \cup NoEffectSeqs

NextNoEffect ==
    \/ \E data \in NoEffectInputs : Feed(data)
    \/ Reset

SpecNoEffect == Init /\ [][NextNoEffect]_vars

\* Characters out of place inside an escape sequence: single characters
\* (text, space, carriage return, ESC, a two-byte character) fed after ESC
\* and after ESC [ with and without a parameter.
StrayChars == {<<97>>, <<SPACE>>, <<CR>>, <<ESC>>, <<195, 169>>}

StrayInputs == StrayChars \cup {CSI, <<Digit(5)>>}

NextStray ==
    \/ \E data \in StrayInputs : Feed(data)
    \/ Reset

SpecStray == Init /\ [][NextStray]_vars

\* Cursor-right by the largest parameter, over and over and nothing else: the
\* way the column reaches the end of its 16 bits.
RightSeq == CSI \o <<Digit(2), Digit(5), Digit(5), Ch_C>>

RightInputs == {RightSeq}

NextRight == \E data \in RightInputs : ncalls < MaxRightCalls /\ FeedCall(data)

SpecRight == Init /\ [][NextRight]_vars

(***************************************************************************)
(* Properties.                                                             *)
(***************************************************************************)
width == term_state.width
height == term_state.height
cells == term_state.cells
cursor == term_state.cursor

\* The cell of row r, column c (zero-based) of a grid.
Cell(ts, r, c) == ts.cells[r * ts.width + c + 1]

\* C1: no feed call panics: every put_char writes inside the cell buffer,
\* also after cursor-right or cursor-set-absolute moved the column to or
\* past the width.
C1_FeedNeverPanics == ret.op = "feed" => ~panicked

\* C2: k plain printable characters fed to a fresh terminal of width w give
\* height ceil(k / w); the first k cells in row-major order are the input
\* and the rest of the last row is spaces.
C2_PlainTextFillsRowMajor ==
    (\A i \in 1..Len(fed) : fed[i] \in PlainChars) =>
        LET k == Len(fed)
        IN /\ ~panicked
           /\ height = (k + width - 1) \div width
           /\ Len(cells) = width * height
           /\ \A i \in 1..Len(cells) : cells[i] = IF i <= k THEN fed[i] ELSE SPACE

\* C2 witness: a multiple of the width was fed in several calls and filled
\* exactly that many rows.
C2_Witness ==
    /\ width = 2
    /\ Len(fed) = 4
    /\ ncalls = 3
    /\ height = 2
    /\ cells = fed

\* C3: contents_to_string() returns the height rows, each its width cells in
\* column order followed by one newline (the empty string at height 0,
\* height * (width + 1) characters in all), and changes nothing.
C3_ContentsToStringRendersRows ==
    [][ret'.op = "contents_to_string" =>
          /\ ~panicked'
          /\ Len(ret'.v) = height * (width + 1)
          /\ \A r \in 0..(height - 1) :
                /\ \A c \in 0..(width - 1) :
                      ret'.v[r * (width + 1) + c + 1] = Cell(term_state, r, c)
                /\ ret'.v[(r + 1) * (width + 1)] = LF
          /\ (height = 0 => ret'.v = << >>)
          /\ term_state' = term_state
          /\ ansi_parser' = ansi_parser]_vars

\* C3 witness: two rows that differ were rendered.
C3_Witness ==
    /\ ret.op = "contents_to_string"
    /\ height = 2
    /\ width = 2
    /\ ret.v = <<97, SPACE, LF, Ch_C, SPACE, LF>>

\* C4: the number of stored cells is width * height in every state.
C4_CellsAreWidthTimesHeight == Len(cells) = width * height

\* C4 witness: two rows of three cells were allocated.
C4_Witness ==
    /\ width = 3
    /\ height = 2
    /\ Len(cells) = 6

\* C5: after reset() the whole state is that of new(width), so the contents
\* are empty and is_empty() holds, and the feeds made since behave as on a
\* fresh instance.
C5_ResetEqualsNew ==
    /\ ret.op = "reset" =>
          /\ Cur = Term_new(width)
          /\ contents_to_string(term_state) = Some(<< >>)
          /\ is_empty(term_state)
    /\ Cur = feed(Term_new(width), fed, overflow_checks)

\* C5 witness: a terminator byte fed after a reset is plain text, whatever the
\* two calls before the reset left in the parser.
C5_Witness ==
    /\ ncalls = MaxCalls
    /\ fed = <<Ch_C>>
    /\ cells = <<Ch_C>> \o [i \in 1..(width - 1) |-> SPACE]
    /\ ansi_parser = AnsiParser_default

\* C6: an escape sequence cut in two at any position and fed in two calls
\* gives the same emitted commands and the same grid, cursor and parser as
\* the whole sequence fed in one call: from every reachable state, and for
\* the calls actually made (the state is that of one call with all the
\* bytes fed since construction or reset).
C6_SplitEscapeSequence ==
    /\ \A seq \in EscSeqs : \A i \in 1..(Len(seq) - 1) :
          feed(feed(Cur, SubSeq(seq, 1, i), overflow_checks),
               SubSeq(seq, i + 1, Len(seq)), overflow_checks)
          = feed(Cur, seq, overflow_checks)
    /\ Cur = feed(Term_new(width), fed, overflow_checks)

\* C6 witness: after some text, ESC [ 2 B arrived in two calls and moved the
\* cursor down two rows.
C6_Witness ==
    /\ ncalls = 3
    /\ fed = <<97>> \o SplitSeq
    /\ emitted = <<PutChar(97), CursorDown(2)>>
    /\ cursor.y = IF width = 1 THEN 3 ELSE 2
    /\ ansi_parser = AnsiParser_default

\* C7: a multi-byte character whose bytes are split between two feed calls
\* is put once, with the same grid and cursor as when its bytes come in one
\* call.
C7_SplitCharacterPersists ==
    \A m \in MultiByte :
        fed = m.bytes =>
            /\ emitted = <<PutChar(m.ch)>>
            /\ Cur = feed(Term_new(width), m.bytes, overflow_checks)

\* C8: an invalid byte sequence fed in Init puts one replacement character
\* (U+FFFD) at the cursor, and the valid input after it is processed.
C8_InvalidBytesReplaced ==
    /\ fed = InvalidByte => emitted = <<PutChar(65533)>>
    /\ fed = InvalidByte \o <<97>> => emitted = <<PutChar(65533), PutChar(97)>>

\* C9: after ESC and one byte that is neither '=' nor '[' the parser is back
\* in normal text processing: a printable character fed next is put and
\* appears in the grid.
C9_MalformedEscapeRecovers ==
    (/\ Len(fed) >= 2
     /\ fed[1] = ESC
     /\ fed[2] \notin {EQUALS, LBRACKET, ESC}
     /\ \A i \in 3..Len(fed) : fed[i] \in PlainChars) =>
        /\ ansi_parser.status = "Init"
        /\ emitted = [i \in 1..(Len(fed) - 2) |-> PutChar(fed[i + 2])]
        /\ Len(cells) >= Len(fed) - 2
        /\ \A i \in 1..(Len(fed) - 2) : cells[i] = fed[i + 2]

\* C10: from every reachable grid, cursor-set-absolute(x, y) followed by
\* put_char(c) stores c in the cell at column x of row y, grows the height to
\* at least y + 1 with the other new cells set to space, and changes no other
\* cell that existed.
C10_CursorSetThenPut ==
    [][\A x \in 0..MaxParam : \A y \in 0..MaxParam :
          (ansi_parser.status = "Init" /\ Feed(SetPut(x, y, 98))) =>
              /\ ~panicked'
              /\ x < width
              /\ term_state'.height = IF height > y + 1 THEN height ELSE y + 1
              /\ Len(term_state'.cells) = width * term_state'.height
              /\ \A r \in 0..(term_state'.height - 1) : \A c \in 0..(width - 1) :
                    Cell(term_state', r, c) =
                        IF r = y /\ c = x THEN 98
                        ELSE IF r < height THEN Cell(term_state, r, c)
                        ELSE SPACE]_vars

Max(a, b) == IF a >= b THEN a ELSE b

\* The grid after the step differs from the grid before it in one cell of
\* row 0 at most, which holds ch; rows the step allocated are spaces.
WritesOnRowZero(ch) ==
    /\ ~panicked'
    /\ Len(term_state'.cells) = width * term_state'.height
    /\ \E c0 \in 0..(width - 1) :
          /\ Cell(term_state', 0, c0) = ch
          /\ \A r \in 0..(term_state'.height - 1) : \A c \in 0..(width - 1) :
                (r # 0 \/ c # c0) =>
                    Cell(term_state', r, c) =
                        IF r < height THEN Cell(term_state, r, c) ELSE SPACE

\* C11: cursor-up(n) and cursor-to-line-start-up(n) set the row to
\* max(row - n, 0) and cursor-left(n) sets the column to max(column - n, 0);
\* after a cursor-up that brought the row to 0 the next put_char writes on
\* row 0.
C11_MovementSaturatesAtOrigin ==
    [][\A d \in MoveInputs : Feed(d) =>
          /\ d = Move(2, Ch_A) =>
                term_state'.cursor = [x |-> cursor.x, y |-> Max(cursor.y - 2, 0)]
          /\ d = Move(2, Ch_F) =>
                term_state'.cursor = [x |-> 0, y |-> Max(cursor.y - 2, 0)]
          /\ d = Move(2, Ch_D) =>
                term_state'.cursor = [x |-> Max(cursor.x - 2, 0), y |-> cursor.y]
          /\ (/\ d = <<97>>
              /\ emitted # << >>
              /\ emitted[Len(emitted)] = CursorUp(2)
              /\ cursor.y = 0) => WritesOnRowZero(97)]_vars

Blank(ts) == [ts EXCEPT !.cells = [i \in 1..Len(@) |-> SPACE]]

Newlines(s) == Cardinality({i \in 1..Len(s) : s[i] = LF})

LastEmitted == IF emitted = << >> THEN None ELSE Some(emitted[Len(emitted)])

\* C12: clear-screen with any mode sets every existing cell to space and
\* changes nothing else (height, width and cursor are as before), so that
\* contents_to_string() afterwards is only spaces and newlines, one newline
\* per row there was.
C12_ClearBlanksEveryCell ==
    [][/\ \A d \in ClearSeqs : Feed(d) =>
             /\ ~panicked'
             /\ term_state' = Blank(term_state)
             /\ LET s == contents_to_string(term_state')
                IN /\ s.some
                   /\ \A i \in 1..Len(s.v) : s.v[i] \in {SPACE, LF}
                   /\ Newlines(s.v) = height
       /\ (ContentsToString /\ LastEmitted.some /\ LastEmitted.v.cmd = "Clear") =>
             /\ ~panicked'
             /\ \A i \in 1..Len(ret'.v) : ret'.v[i] \in {SPACE, LF}
             /\ Newlines(ret'.v) = height]_vars

\* Two rows holding text were cleared with a mode other than 2 and rendered.
C12_Witness ==
    /\ ret.op = "contents_to_string"
    /\ ~panicked
    /\ height = 2
    /\ LastEmitted = Some(Clear(0))
    /\ \E i \in 1..Len(emitted) : emitted[i].cmd = "PutChar"
    /\ ret.v = <<SPACE, LF, SPACE, LF>>

\* Row and column of the i-th element of cells (i counted from 1).
RowOf(i) == (i - 1) \div width

ColOf(i) == (i - 1) % width

\* C13: erase-to-end-of-line sets to space exactly the existing cells of the
\* cursor's row at columns >= the cursor column and < width; every other
\* cell, the height and the cursor are unchanged, and with the cursor on a
\* row not allocated or at a column >= width nothing changes at all.
C13_EraseOnlyFromCursorToEol ==
    [][Feed(EraseSeq) =>
          /\ ~panicked'
          /\ term_state'.width = width
          /\ term_state'.height = height
          /\ term_state'.cursor = cursor
          /\ Len(term_state'.cells) = Len(cells)
          /\ \A i \in 1..Len(cells) :
                term_state'.cells[i] =
                    IF RowOf(i) = cursor.y /\ ColOf(i) >= cursor.x
                    THEN SPACE ELSE cells[i]
          /\ (cursor.y >= height \/ cursor.x >= width) => term_state' = term_state]_vars

\* "ab" was written on a row of three cells, the cursor moved back onto the
\* b, and the erase removed the b and kept the a.
C13_Witness ==
    /\ LastEmitted = Some(EraseFromCursorToEol)
    /\ width = 3
    /\ cursor = [x |-> 1, y |-> 0]
    /\ cells = <<97, SPACE, SPACE>>
    /\ \E i \in 1..Len(emitted) : emitted[i] = PutChar(98)

Written == \E i \in 1..Len(emitted) : emitted[i].cmd = "PutChar"

\* C14: is_empty() is true exactly when height is 0, that is exactly when no
\* put_char has happened since construction or reset: clears and erases that
\* blank every cell keep it false, and cursor movements, erases and clears
\* on a grid nothing was written to keep it true.
C14_IsEmptyIffNoRow ==
    /\ is_empty(term_state) = (height = 0)
    /\ (height = 0) = ~Written
    /\ ret.op = "is_empty" => ret.v = (height = 0)

\* is_empty() returned false on a grid that was written to and then cleared.
C14_Witness ==
    /\ ret.op = "is_empty"
    /\ ~ret.v
    /\ LastEmitted = Some(Clear(DEFAULT_CLEAR_MODE))
    /\ Written
    /\ \A i \in 1..Len(cells) : cells[i] = SPACE

\* The k-th ';'-separated field of p when it parses as 0..255, else d.
FieldOr(p, k, d) ==
    LET args == split(p, 1, << >>)
    IN IF k <= Len(args) /\ parse_u8(args[k]).some THEN parse_u8(args[k]).v ELSE d

\* C15: numeric parameters fall back to the default per field: B takes the
\* first field or 1, J the first field or 2, and H takes each of its two
\* fields independently, 1 standing for a field that is missing, empty, not
\* a number or above 255.
C15_DefaultsPerField ==
    [][\A p \in ParamTexts :
          /\ Feed(ParamSeq(p, Ch_B)) =>
                emitted' = Append(emitted, CursorDown(FieldOr(p, 1, DEFAULT_N)))
          /\ Feed(ParamSeq(p, Ch_J)) =>
                emitted' = Append(emitted, Clear(FieldOr(p, 1, DEFAULT_CLEAR_MODE)))
          /\ Feed(ParamSeq(p, Ch_H)) =>
                emitted' = Append(emitted, CursorSet(FieldOr(p, 1, DEFAULT_N),
                                                     FieldOr(p, 2, DEFAULT_N)))]_vars

Terminators == TERM_LO..TERM_HI

\* C16: every terminator byte received in ControlSeqStart, recognized or not,
\* leaves the parser in Init with no parameter bytes and emits at most one
\* command; so whenever the status is Init or Esc the parameter buffer is
\* empty.
C16_TerminatorClearsParams ==
    [][/\ ansi_parser'.status \in {"Init", "Esc"} => ansi_parser'.param_bytes = << >>
       /\ ansi_parser.status = "ControlSeqStart" =>
             /\ \A ch \in Terminators :
                   LET r == parser_step(ansi_parser, ch)
                   IN r.ap = AnsiParser_default /\ Len(r.cmds) <= 1
             /\ \A d \in PieceInputs :
                   (Feed(d) /\ d[1] \in Terminators) =>
                       /\ ansi_parser' = AnsiParser_default
                       /\ Len(emitted') <= Len(emitted) + 1]_vars

\* An unrecognized terminator ended a sequence that had a parameter.
C16_Witness ==
    /\ fed = CSI \o <<Digit(5), TERM_HI>>
    /\ ansi_parser = AnsiParser_default
    /\ emitted = << >>

GridTerminators == {Ch_K, Ch_A, Ch_B, Ch_C, Ch_D, Ch_E, Ch_F, Ch_H, Ch_J}

NoEffectParams == {<< >>, <<Digit(2)>>, SYNC_UPDATE_MODE}

\* What the terminators outside GridTerminators emit, over NoEffectParams.
UnmappedCmds ==
    UNION {{terminator_cmds(p, t)[i] : i \in 1..Len(terminator_cmds(p, t))} :
              p \in NoEffectParams, t \in Terminators \ GridTerminators}

\* Each of them, and '=' after ESC, takes the parser back to Init.
UnmappedReturnToInit ==
    /\ step_Esc([status |-> "Esc", param_bytes |-> << >>], EQUALS)
          = [ap |-> AnsiParser_default, cmds |-> << >>]
    /\ \A p \in NoEffectParams, t \in Terminators \ GridTerminators :
          step_ControlSeqStart([status |-> "ControlSeqStart", param_bytes |-> p], t).ap
              = AnsiParser_default

Unexpected(ap, ch) ==
    \/ ap.status = "Esc" /\ ch \notin {EQUALS, LBRACKET}
    \/ ap.status = "ControlSeqStart" /\ (ch < PARAM_LO \/ ch > TERM_HI)

\* C18: a character that is not valid inside the escape sequence in
\* progress (in Esc anything but '=' and '[', in ControlSeqStart anything
\* outside 0x30-0x7E) emits no command and leaves the parser status, the
\* accumulated parameters, the grid and the cursor unchanged.
C18_StrayCharacterIsSwallowed ==
    [][/\ \A ch \in 0..U8_MAX :
             Unexpected(ansi_parser, ch) =>
                 parser_step(ansi_parser, ch) = [ap |-> ansi_parser, cmds |-> << >>]
       /\ \A d \in StrayChars :
             (Feed(d) /\ Unexpected(ansi_parser, valid_chars(d, 1)[1])) =>
                 /\ ~panicked'
                 /\ emitted' = emitted
                 /\ ansi_parser' = ansi_parser
                 /\ term_state' = term_state]_vars

\* An ESC arrived inside a control sequence that had a parameter, and the
\* sequence is still in progress with its parameter.
C18_Witness ==
    /\ fed = CSI \o <<Digit(5), ESC>>
    /\ ansi_parser = [status |-> "ControlSeqStart", param_bytes |-> <<Digit(5)>>]
    /\ emitted = << >>

\* The commands that move the cursor and write nothing.
CursorOnly(d) == d \in MoveInputs \ {<<97>>}

\* C19: rows are allocated only by put_char.  Carriage return, line feed
\* (row + 1, same column), cursor up/down/left/right, line-start up/down and
\* cursor-set change only the cursor and leave cells and height as they were
\* even when the row reaches or passes the height; the height never
\* decreases between resets; a put_char at row r leaves
\* height = max(previous height, r + 1).
C19_OnlyPutCharAllocatesRows ==
    [][/\ \A d \in MoveInputs : Feed(d) =>
             /\ term_state'.height >= height
             /\ CursorOnly(d) =>
                   term_state' = [term_state EXCEPT !.cursor = term_state'.cursor]
             /\ d = <<LF>> => term_state'.cursor = [x |-> cursor.x, y |-> cursor.y + 1]
             /\ d = <<97>> =>
                   /\ term_state'.height = Max(height, cursor.y + 1)
                   /\ Len(term_state'.cells) = width * term_state'.height]_vars

\* The cursor was moved two rows past the only row and nothing was allocated.
C19_Witness ==
    /\ LastEmitted = Some(CursorDown(2))
    /\ height = 1
    /\ cursor.y >= 2
    /\ Len(cells) = width

\* C20: cursor-right(n) sets the column to exactly column + n, whatever the
\* column: repeated cursor-right commands never overflow or wrap it.
C20_CursorRightAddsExactly ==
    [][FeedCall(RightSeq) =>
          /\ ~panicked'
          /\ term_state'.cursor.x = cursor.x + U8_MAX]_vars

====
